---- MODULE Spec2Model ----
(***************************************************************************)
(* Model of sigslot.hpp: signals<...> (the emitter, with its list          *)
(* m_connected_slots of _connections objects) and has_slots (the receiver, *)
(* with its set m_senders of emitters).                                    *)
(*                                                                         *)
(* Every `StaticGuard<> guard();` of the source declares a function and    *)
(* constructs no object, so the operations below take no lock.  Spec is    *)
(* the program run by one thread: its operations are atomic, but for emit, *)
(* modelled one loop iteration at a time because its callbacks re-enter    *)
(* the emitter.  SpecMT is the program run by two threads: one in emit,    *)
(* the other calling connect and destroying receivers.                     *)
(***************************************************************************)
EXTENDS Integers, Sequences, FiniteSets, TLC

\* ---- bounds ----
NumEmitters == 2
NumReceivers == 2
MaxConns == 4

EmitterIds == 1..NumEmitters
ReceiverIds == 1..NumReceivers
ConnIds == 1..MaxConns

\* list.end(): the sentinel of std::list, never invalidated
End == 0

\* The member functions a program binds with connect (m_pmemfun): a quiet one
\* never touches the emitter that calls it; an active one may call disconnect
\* on that emitter, for a receiver it chooses when it runs.
Callables == {"quiet", "active"}

\* what a called member function does: Nothing, disconnect(r) for receiver r
\* (the act r), or connect(r, pmemfun) with its own member function (the act
\* ConnectTo(r))
Nothing == 0
ConnectTo(r) == 0 - r
ConnectActs == {ConnectTo(r) : r \in ReceiverIds}
Acts(f) == IF f = "quiet" THEN {Nothing} ELSE {Nothing} \cup ReceiverIds \cup ConnectActs

VARIABLES
    estate,             \* emitter -> "unborn" | "live" | "dead"
    rstate,             \* receiver -> "unborn" | "live" | "dead"
    m_connected_slots,  \* emitter -> sequence of connection ids (std::list)
    m_senders,          \* receiver -> set of emitters (std::set)
    conns,              \* connection id -> [dest, fn]: every _connections object ever made
    nxt,                \* node erased during the emit in progress -> the successor it had
    em,                 \* the emit call in progress: emitter, iterator, calls made and what they did
    r_origin,           \* live receiver -> the receiver it was copy-constructed from, or 0
    last,               \* the last top-level operation and the state it started from
    ub,                 \* kinds of undefined behaviour executed by the last operation
    crashed,            \* the process was ended by undefined behaviour
    th                  \* the mutex of the lock policy, and the call the second thread is in

vars == <<estate, rstate, m_connected_slots, m_senders, conns, nxt, em,
          r_origin, last, ub, crashed, th>>

\* ---- StaticGuard ----

\* mutant: the guard is an object; its constructor takes the mutex, and waits
\* while the mutex is taken
StaticGuard_object(m, t) == [blocked |-> m # 0, mutex |-> t]

\* Thread 1 makes the calls of Spec and the emit of SpecMT; thread 2 makes
\* the calls T2Call/T2Run of SpecMT.
\* `StaticGuard<> guard();` executed by thread t while the mutex is m (0 when
\* free, else the thread that holds it): the statement declares a function
\* named guard, no StaticGuard is constructed, the thread goes on and the
\* mutex is as it was
StaticGuard(m, t) == [blocked |-> FALSE, mutex |-> m]

\* the end of the scope of guard: ~StaticGuard of a guard that took the mutex
\* gives it back
Release(m, t) == IF m = t THEN 0 ELSE m

\* ---- _connections ----

\* _connections::getdest
getdest(cs, c) == cs[c].dest

\* _connections::clone: a new object, same receiver and member function
clone(cs, c) == [dest |-> cs[c].dest, fn |-> cs[c].fn]

\* _connections::duplicate: a new object, new receiver, same member function
duplicate(cs, c, pnewdest) == [dest |-> pnewdest, fn |-> cs[c].fn]

\* ---- the store the operations work on ----
\* slots, senders, conns, nxt: the values of the variables; ub: the kinds of
\* undefined behaviour the operation executed; told: the receivers whose
\* signal_disconnect the operation called.
Store ==
    [slots |-> m_connected_slots, senders |-> m_senders, conns |-> conns,
     nxt |-> nxt, ub |-> {}, told |-> {}]

\* position of the node after position i, as an iterator
SuccOf(list, i) == IF i < Len(list) THEN list[i + 1] ELSE End

\* std::list::push_back
push_back(list, c) == Append(list, c)

\* mutant: the node after the one asked for is erased, when there is one
erase_after(s, e, i) ==
    LET list == s.slots[e]
        k == IF i < Len(list) THEN i + 1 ELSE i IN
    [s EXCEPT !.slots[e] = SubSeq(list, 1, k - 1) \o SubSeq(list, k + 1, Len(list)),
              !.nxt[list[k]] = SuccOf(list, k)]

\* std::list::erase(it) on emitter e's list, it at position i.  The erased
\* node keeps its next pointer in freed memory.
erase(s, e, i) ==
    LET list == s.slots[e] IN
    [s EXCEPT !.slots[e] = SubSeq(list, 1, i - 1) \o SubSeq(list, i + 1, Len(list)),
              !.nxt[list[i]] = SuccOf(list, i)]

\* std::list::erase(begin(), end())
erase_all(s, e) ==
    LET list == s.slots[e] IN
    [s EXCEPT !.slots[e] = << >>,
              !.nxt = [c \in ConnIds |->
                          IF \E i \in 1..Len(list) : list[i] = c
                          THEN SuccOf(list, CHOOSE i \in 1..Len(list) : list[i] = c)
                          ELSE @[c]]]

\* ---- has_slots ----

\* mutant: the emitter is not recorded
signal_connect_lost(s, r, e) == s

\* has_slots::signal_connect; on a destroyed receiver it writes freed memory
signal_connect(s, r, e) ==
    IF rstate[r] = "live"
    THEN [s EXCEPT !.senders[r] = @ \cup {e}]
    ELSE [s EXCEPT !.ub = @ \cup {"dead_receiver"}]

\* mutant: the emitter stays in the set
signal_disconnect_kept(s, r, e) == [s EXCEPT !.told = @ \cup {r}]

\* has_slots::signal_disconnect; on a destroyed receiver it writes freed memory
signal_disconnect(s, r, e) ==
    IF rstate[r] = "live"
    THEN [s EXCEPT !.senders[r] = @ \ {e}, !.told = @ \cup {r}]
    ELSE [s EXCEPT !.ub = @ \cup {"dead_receiver"}, !.told = @ \cup {r}]

\* ---- _signal_bases ----

\* mutant: the last connection to pclass is found, not the first
RECURSIVE LastMatch(_, _, _, _)
LastMatch(cs, list, pclass, i) ==
    IF i > Len(list) THEN 0
    ELSE LET later == LastMatch(cs, list, pclass, i + 1) IN
         IF later # 0 THEN later
         ELSE IF getdest(cs, list[i]) = pclass THEN i ELSE 0

\* the loop of _signal_bases::disconnect: position of the first connection
\* at or after position i whose getdest() is pclass, 0 when the loop ends
RECURSIVE FirstMatch(_, _, _, _)
FirstMatch(cs, list, pclass, i) ==
    IF i > Len(list) THEN 0
    ELSE IF getdest(cs, list[i]) = pclass THEN i
    ELSE FirstMatch(cs, list, pclass, i + 1)

\* mutant: a call that finds no connection to pclass removes the list's first
disconnect_unchecked(s, e, pclass) ==
    LET found == FirstMatch(s.conns, s.slots[e], pclass, 1)
        i == IF found = 0 /\ Len(s.slots[e]) > 0 THEN 1 ELSE found IN
    IF i = 0 THEN s
    ELSE signal_disconnect(erase(s, e, i), pclass, e)

\* mutant: the receiver is not told
disconnect_silent(s, e, pclass) ==
    LET i == FirstMatch(s.conns, s.slots[e], pclass, 1) IN
    IF i = 0 THEN s
    ELSE erase(s, e, i)

\* _signal_bases::disconnect(pclass) on emitter e
disconnect(s, e, pclass) ==
    LET i == FirstMatch(s.conns, s.slots[e], pclass, 1) IN
    IF i = 0 THEN s
    ELSE signal_disconnect(erase(s, e, i), pclass, e)

\* mutant: only the receiver of the connection at position i is told
NotifyFirst(s, e, i) ==
    IF i > Len(s.slots[e]) THEN s
    ELSE signal_disconnect(s, getdest(s.conns, s.slots[e][i]), e)

\* the loop of _signal_bases::disconnect_all: signal_disconnect on the
\* receiver of every connection, from position i on
RECURSIVE NotifyAll(_, _, _)
NotifyAll(s, e, i) ==
    IF i > Len(s.slots[e]) THEN s
    ELSE NotifyAll(signal_disconnect(s, getdest(s.conns, s.slots[e][i]), e), e, i + 1)

\* _signal_bases::disconnect_all on emitter e
disconnect_all(s, e) == erase_all(NotifyAll(s, e, 1), e)

\* _signal_bases::slot_disconnect(pslot) on emitter e: the loop from position
\* i on; erasing the node at i brings its successor to position i
RECURSIVE slot_disconnect_from(_, _, _, _)
slot_disconnect_from(s, e, pslot, i) ==
    IF i > Len(s.slots[e]) THEN s
    ELSE IF getdest(s.conns, s.slots[e][i]) = pslot
         THEN slot_disconnect_from(erase(s, e, i), e, pslot, i)
         ELSE slot_disconnect_from(s, e, pslot, i + 1)

\* mutant: the loop stops at the first connection it removes
slot_disconnect_once(s, e, pslot) ==
    LET i == FirstMatch(s.conns, s.slots[e], pslot, 1) IN
    IF estate[e] # "live" THEN [s EXCEPT !.ub = @ \cup {"dead_emitter"}]
    ELSE IF i = 0 THEN s
    ELSE erase(s, e, i)

\* _signal_bases::slot_disconnect; called on a destroyed emitter it walks
\* freed memory
slot_disconnect(s, e, pslot) ==
    IF estate[e] = "live"
    THEN slot_disconnect_from(s, e, pslot, 1)
    ELSE [s EXCEPT !.ub = @ \cup {"dead_emitter"}]

\* the new connection object gets the next free identity
NewConn(s, c) == [s EXCEPT !.conns = Append(@, c)]

\* _signal_bases::slot_duplicate(oldtarget, newtarget) on emitter e: the loop
\* from position i on.  itEnd is the list's sentinel, so the walk goes on
\* over the connections it has appended itself.
RECURSIVE slot_duplicate_from(_, _, _, _, _)
slot_duplicate_from(s, e, oldtarget, newtarget, i) ==
    IF i > Len(s.slots[e]) THEN s
    ELSE IF getdest(s.conns, s.slots[e][i]) = oldtarget
         THEN LET s1 == NewConn(s, duplicate(s.conns, s.slots[e][i], newtarget)) IN
              slot_duplicate_from(
                  [s1 EXCEPT !.slots[e] = push_back(@, Len(s1.conns))],
                  e, oldtarget, newtarget, i + 1)
         ELSE slot_duplicate_from(s, e, oldtarget, newtarget, i + 1)

\* mutant: the loop looks for connections to the new receiver, which has none
slot_duplicate_newtarget(s, e, oldtarget, newtarget) ==
    IF estate[e] = "live"
    THEN slot_duplicate_from(s, e, newtarget, newtarget, 1)
    ELSE [s EXCEPT !.ub = @ \cup {"dead_emitter"}]

\* _signal_bases::slot_duplicate; called on a destroyed emitter it walks
\* freed memory
slot_duplicate(s, e, oldtarget, newtarget) ==
    IF estate[e] = "live"
    THEN slot_duplicate_from(s, e, oldtarget, newtarget, 1)
    ELSE [s EXCEPT !.ub = @ \cup {"dead_emitter"}]

\* the loop of the copy constructor _signal_bases(const _signal_bases& s) for
\* the new emitter e2, from position i of the source's list on
RECURSIVE copy_signal_from(_, _, _, _)
copy_signal_from(s, e1, e2, i) ==
    IF i > Len(s.slots[e1]) THEN s
    ELSE LET c == s.slots[e1][i]
             s1 == signal_connect(s, getdest(s.conns, c), e2)
             s2 == NewConn(s1, clone(s1.conns, c)) IN
         copy_signal_from([s2 EXCEPT !.slots[e2] = push_back(@, Len(s2.conns))],
                          e1, e2, i + 1)

\* mutant: the new connection is put at the front of the list
connect_front(s, e, pclass, pmemfun) ==
    LET s1 == NewConn(s, [dest |-> pclass, fn |-> pmemfun]) IN
    signal_connect([s1 EXCEPT !.slots[e] = <<Len(s1.conns)>> \o @], pclass, e)

\* signals::connect(pclass, pmemfun) on emitter e
connect(s, e, pclass, pmemfun) ==
    LET s1 == NewConn(s, [dest |-> pclass, fn |-> pmemfun]) IN
    signal_connect([s1 EXCEPT !.slots[e] = push_back(@, Len(s1.conns))], pclass, e)

\* ---- has_slots, walking m_senders ----

\* std::set iterates in key order
MinOf(S) == CHOOSE x \in S : \A y \in S : x <= y

\* the loop of has_slots::disconnect_all for receiver r over the emitters
\* `todo` of m_senders still to visit
RECURSIVE drop_from_senders(_, _, _)
drop_from_senders(s, r, todo) ==
    IF todo = {} THEN s
    ELSE drop_from_senders(slot_disconnect(s, MinOf(todo), r), r, todo \ {MinOf(todo)})

\* has_slots::disconnect_all on receiver r
has_slots_disconnect_all(s, r) ==
    LET s1 == drop_from_senders(s, r, s.senders[r]) IN
    [s1 EXCEPT !.senders[r] = {}]

\* the loop of the copy constructor has_slots(const has_slots& hs) for the
\* new receiver r2, over the emitters `todo` of hs.m_senders still to visit
RECURSIVE copy_slots_from(_, _, _, _)
copy_slots_from(s, hs, r2, todo) ==
    IF todo = {} THEN s
    ELSE LET e == MinOf(todo)
             s1 == slot_duplicate(s, e, hs, r2) IN
         copy_slots_from([s1 EXCEPT !.senders[r2] = @ \cup {e}], hs, r2, todo \ {e})

\* ---- the state machine ----

\* em.prior: the call before this emit was an emit on the same emitter in
\* which a member function disconnected its own receiver, other calls following
EmIdle == [active |-> FALSE, e |-> 0, it |-> End, log |-> << >>, prior |-> FALSE]

\* the record kept of a top-level operation: its name, the emitter and the
\* receiver it was called with, the object it constructed, the lists and
\* sets it started from, and the receivers whose signal_disconnect it called;
\* for a disconnect(e, r) made right after connect(e, r, f), also the lists
\* and sets that connect started from
NoBefore == [known |-> FALSE, slots |-> << >>, senders |-> << >>, conns |-> << >>]
Op(name, e, r, n) ==
    [op |-> name, e |-> e, r |-> r, n |-> n,
     slots |-> m_connected_slots, senders |-> m_senders, conns |-> conns,
     told |-> {}, before |-> NoBefore]

\* the record of an operation that ran on the store and left s
OpOn(name, e, r, n, s) == [Op(name, e, r, n) EXCEPT !.told = s.told]

\* the second thread is in no call and nothing holds the mutex
ThIdle == [mutex |-> 0, pc |-> "idle", op |-> "none", e |-> 0, r |-> 0]

Init ==
    /\ estate = [e \in EmitterIds |-> "unborn"]
    /\ rstate = [r \in ReceiverIds |-> "unborn"]
    /\ m_connected_slots = [e \in EmitterIds |-> << >>]
    /\ m_senders = [r \in ReceiverIds |-> {}]
    /\ conns = << >>
    /\ nxt = [c \in ConnIds |-> End]
    /\ em = EmIdle
    /\ r_origin = [r \in ReceiverIds |-> 0]
    /\ last = Op("init", 0, 0, 0)
    /\ ub = {}
    /\ crashed = FALSE
    /\ th = ThIdle

\* the memory of a connection object that no list holds any more; what it
\* held can be read only through an iterator of an emit in progress
Freed == [dest |-> 0, fn |-> "freed"]
Reclaim(cs, slots) ==
    [c \in 1..Len(cs) |->
        IF \E e \in EmitterIds : \E i \in 1..Len(slots[e]) : slots[e][i] = c
        THEN cs[c] ELSE Freed]

\* The operation ran to its end and left store s.
Return(s) ==
    /\ Len(s.conns) <= MaxConns
    /\ m_connected_slots' = s.slots
    /\ m_senders' = s.senders
    /\ conns' = Reclaim(s.conns, s.slots)
    /\ nxt' = [c \in ConnIds |-> End]
    /\ ub' = s.ub
    /\ crashed' = FALSE
    /\ th' = th

\* The operation executed undefined behaviour and the process died in it.
Crash(s) ==
    /\ s.ub # {}
    /\ crashed' = TRUE
    /\ ub' = s.ub
    /\ UNCHANGED <<estate, rstate, m_connected_slots, m_senders, conns, nxt, em,
                   r_origin, last, th>>

\* a top-level call of the first thread is made by a running program outside
\* any emit, and the guard at its head lets it in
Idle == ~crashed /\ ~em.active /\ ~StaticGuard(th.mutex, 1).blocked

\* signals::signals()
NewEmitter(e) ==
    /\ Idle
    /\ estate[e] = "unborn"
    /\ \A d \in EmitterIds : d < e => estate[d] # "unborn"
    /\ estate' = [estate EXCEPT ![e] = "live"]
    /\ last' = Op("new_emitter", e, 0, e)
    /\ em' = EmIdle
    /\ ub' = {}
    /\ UNCHANGED <<rstate, m_connected_slots, m_senders, conns, nxt,
                   r_origin, crashed, th>>

\* has_slots::has_slots()
NewReceiver(r) ==
    /\ Idle
    /\ rstate[r] = "unborn"
    /\ \A d \in ReceiverIds : d < r => rstate[d] # "unborn"
    /\ rstate' = [rstate EXCEPT ![r] = "live"]
    /\ last' = Op("new_receiver", 0, r, r)
    /\ em' = EmIdle
    /\ ub' = {}
    /\ UNCHANGED <<estate, m_connected_slots, m_senders, conns, nxt,
                   r_origin, crashed, th>>

\* signals::connect
Connect(e, r, f) ==
    /\ Idle
    /\ estate[e] = "live" /\ rstate[r] = "live"
    /\ Return(connect(Store, e, r, f))
    /\ last' = OpOn("connect", e, r, 0, connect(Store, e, r, f))
    /\ em' = EmIdle
    /\ UNCHANGED <<estate, rstate, r_origin>>

\* _signal_bases::disconnect
Disconnect(e, r) ==
    /\ Idle
    /\ estate[e] = "live" /\ rstate[r] = "live"
    /\ Return(disconnect(Store, e, r))
    /\ last' = [OpOn("disconnect", e, r, 0, disconnect(Store, e, r)) EXCEPT
                   !.before = IF last.op = "connect" /\ last.e = e /\ last.r = r
                              THEN [known |-> TRUE, slots |-> last.slots,
                                    senders |-> last.senders, conns |-> last.conns]
                              ELSE NoBefore]
    /\ em' = EmIdle
    /\ UNCHANGED <<estate, rstate, r_origin>>

\* _signal_bases::disconnect_all
DisconnectAll(e) ==
    /\ Idle
    /\ estate[e] = "live"
    /\ LET s == disconnect_all(Store, e) IN
       \/ /\ Return(s)
          /\ last' = OpOn("disconnect_all", e, 0, 0, s)
          /\ em' = EmIdle
          /\ UNCHANGED <<estate, rstate, r_origin>>
       \/ Crash(s)

\* _signal_bases::~_signal_bases
DestroyEmitter(e) ==
    /\ Idle
    /\ estate[e] = "live"
    /\ LET s == disconnect_all(Store, e) IN
       \/ /\ Return(s)
          /\ estate' = [estate EXCEPT ![e] = "dead"]
          /\ last' = OpOn("destroy_emitter", e, 0, 0, s)
          /\ em' = EmIdle
          /\ UNCHANGED <<rstate, r_origin>>
       \/ Crash(s)

\* signals::signals(const signals&): e2 is constructed as a copy of e1
CopyEmitter(e1, e2) ==
    /\ Idle
    /\ estate[e1] = "live" /\ estate[e2] = "unborn"
    /\ \A d \in EmitterIds : d < e2 => estate[d] # "unborn"
    /\ LET s == copy_signal_from(Store, e1, e2, 1) IN
       \/ /\ Return(s)
          /\ estate' = [estate EXCEPT ![e2] = "live"]
          /\ last' = OpOn("copy_emitter", e1, 0, e2, s)
          /\ em' = EmIdle
          /\ UNCHANGED <<rstate, r_origin>>
       \/ Crash(s)

\* has_slots::disconnect_all, called by the program
ReceiverDisconnectAll(r) ==
    /\ Idle
    /\ rstate[r] = "live"
    /\ LET s == has_slots_disconnect_all(Store, r) IN
       \/ /\ Return(s)
          /\ last' = OpOn("receiver_disconnect_all", 0, r, 0, s)
          /\ em' = EmIdle
          /\ UNCHANGED <<estate, rstate, r_origin>>
       \/ Crash(s)

\* has_slots::~has_slots
DestroyReceiver(r) ==
    /\ Idle
    /\ rstate[r] = "live"
    /\ LET s == has_slots_disconnect_all(Store, r) IN
       \/ /\ Return(s)
          /\ rstate' = [rstate EXCEPT ![r] = "dead"]
          /\ r_origin' = [r_origin EXCEPT ![r] = 0]
          /\ last' = OpOn("destroy_receiver", 0, r, 0, s)
          /\ em' = EmIdle
          /\ UNCHANGED estate
       \/ Crash(s)

\* has_slots::has_slots(const has_slots&): r2 is constructed as a copy of hs
CopyReceiver(hs, r2) ==
    /\ Idle
    /\ rstate[hs] = "live" /\ rstate[r2] = "unborn"
    /\ \A d \in ReceiverIds : d < r2 => rstate[d] # "unborn"
    /\ LET s == copy_slots_from(Store, hs, r2, m_senders[hs]) IN
       \/ /\ Return(s)
          /\ rstate' = [rstate EXCEPT ![r2] = "live"]
          /\ r_origin' = [r_origin EXCEPT ![r2] = hs]
          /\ last' = OpOn("copy_receiver", 0, hs, r2, s)
          /\ em' = EmIdle
          /\ UNCHANGED estate
       \/ Crash(s)

\* ---- signals::emit ----

InList(list, c) == \E i \in 1..Len(list) : list[i] = c
PosOf(list, c) == CHOOSE i \in 1..Len(list) : list[i] = c

\* list.begin()
Begin(list) == IF Len(list) = 0 THEN End ELSE list[1]

\* ++it: through the list when the node is in it, through the freed node's
\* memory when it has been erased
Incr(list, nx, it) == IF InList(list, it) THEN SuccOf(list, PosOf(list, it)) ELSE nx[it]

\* (*it)->emit(args...): _connections::emit calls the member function on
\* m_pobject, and the member function does act a
invoke(s, e, c, a) ==
    LET s1 == IF rstate[getdest(s.conns, c)] = "live" THEN s
              ELSE [s EXCEPT !.ub = @ \cup {"dead_receiver"}] IN
    IF a = Nothing THEN s1
    ELSE IF a \in ReceiverIds THEN disconnect(s1, e, a)
    ELSE connect(s1, e, 0 - a, s.conns[c].fn)

\* signals::emit, up to the first test of the loop
EmitCall(e) ==
    /\ Idle
    /\ estate[e] = "live"
    /\ em' = [active |-> TRUE, e |-> e, it |-> Begin(m_connected_slots[e]),
              log |-> << >>,
              prior |-> /\ last.op = "emit"
                        /\ last.e = e
                        /\ \E i \in 1..(Len(em.log) - 1) :
                               /\ em.log[i].c <= Len(last.conns)
                               /\ em.log[i].act = last.conns[em.log[i].c].dest]
    /\ last' = Op("emit", e, 0, 0)
    /\ ub' = {}
    /\ th' = [th EXCEPT !.mutex = StaticGuard(@, 1).mutex]
    /\ UNCHANGED <<estate, rstate, m_connected_slots, m_senders, conns, nxt,
                   r_origin, crashed>>

\* the receiver an act is about
ActOn(a) == IF a \in ReceiverIds THEN a ELSE 0 - a

\* one iteration of the loop of signals::emit, the member function called
\* doing act a.  A program passes connect and disconnect a receiver it
\* holds: a live one, or the member function's own object.  connect and
\* disconnect called by the member function begin with a guard of their own.
EmitStep(a) ==
    /\ ~crashed
    /\ em.active
    /\ em.it # End
    /\ a \in Acts(conns[em.it].fn)
    /\ a # Nothing => (rstate[ActOn(a)] = "live" \/ ActOn(a) = getdest(conns, em.it))
    /\ a # Nothing => ~StaticGuard(th.mutex, 1).blocked
    /\ LET list == m_connected_slots[em.e]
           s0 == IF InList(list, em.it) THEN [Store EXCEPT !.ub = ub]
                 ELSE [Store EXCEPT !.ub = ub \cup {"stale_iterator"}]
           itNext == Incr(list, nxt, em.it)
           s == invoke(s0, em.e, em.it, a) IN
       \/ /\ Len(s.conns) <= MaxConns
          /\ m_connected_slots' = s.slots
          /\ m_senders' = s.senders
          /\ conns' = s.conns
          /\ nxt' = s.nxt
          /\ ub' = s.ub
          /\ crashed' = FALSE
          /\ em' = [em EXCEPT !.it = itNext,
                              !.log = Append(@, [c |-> em.it, act |-> a])]
          /\ UNCHANGED <<estate, rstate, r_origin, last, th>>
       \/ Crash(s)

\* the loop of signals::emit ends and emit returns
EmitReturn ==
    /\ ~crashed
    /\ em.active
    /\ em.it = End
    /\ em' = [em EXCEPT !.active = FALSE]
    /\ nxt' = [c \in ConnIds |-> End]
    /\ conns' = Reclaim(conns, m_connected_slots)
    /\ th' = [th EXCEPT !.mutex = Release(@, 1)]
    /\ UNCHANGED <<estate, rstate, m_connected_slots, m_senders,
                   r_origin, last, ub, crashed>>

Next ==
    \/ \E e \in EmitterIds : NewEmitter(e)
    \/ \E r \in ReceiverIds : NewReceiver(r)
    \/ \E e \in EmitterIds, r \in ReceiverIds, f \in Callables : Connect(e, r, f)
    \/ \E e \in EmitterIds, r \in ReceiverIds : Disconnect(e, r)
    \/ \E e \in EmitterIds : DisconnectAll(e)
    \/ \E e \in EmitterIds : DestroyEmitter(e)
    \/ \E e1, e2 \in EmitterIds : CopyEmitter(e1, e2)
    \/ \E r \in ReceiverIds : ReceiverDisconnectAll(r)
    \/ \E r \in ReceiverIds : DestroyReceiver(r)
    \/ \E r1, r2 \in ReceiverIds : CopyReceiver(r1, r2)
    \/ \E e \in EmitterIds : EmitCall(e)
    \/ \E a \in {Nothing} \cup ReceiverIds \cup ConnectActs : EmitStep(a)
    \/ EmitReturn

Spec == Init /\ [][Next]_vars

\* ---- two threads ----
\* One thread runs emit, one loop iteration at a time; a second thread calls
\* connect and the destructor of a receiver.  The program starts with one
\* emitter, the receivers, and a list built by connect calls.  No thread
\* calls disconnect and every member function is quiet: run by one thread
\* alone, these calls execute no undefined behaviour.

InitMT ==
    /\ estate = [e \in EmitterIds |-> IF e = 1 THEN "live" ELSE "unborn"]
    /\ rstate = [r \in ReceiverIds |-> "live"]
    /\ \E n \in 0..(MaxConns - 1) : \E d \in [1..n -> ReceiverIds] :
          /\ conns = [i \in 1..n |-> [dest |-> d[i], fn |-> "quiet"]]
          /\ m_connected_slots =
                 [e \in EmitterIds |-> IF e = 1 THEN [i \in 1..n |-> i] ELSE << >>]
          /\ m_senders =
                 [r \in ReceiverIds |-> IF \E i \in 1..n : d[i] = r THEN {1} ELSE {}]
    /\ nxt = [c \in ConnIds |-> End]
    /\ em = EmIdle
    /\ r_origin = [r \in ReceiverIds |-> 0]
    /\ last = Op("init", 0, 0, 0)
    /\ ub = {}
    /\ crashed = FALSE
    /\ th = ThIdle

T2Ops == {"connect", "destroy_receiver"}

\* the second thread calls op and executes the guard at its head
T2Call(op, e, r) ==
    /\ ~crashed
    /\ th.pc = "idle"
    /\ estate[e] = "live" /\ rstate[r] = "live"
    /\ op = "connect" => Len(conns) < MaxConns
    /\ ~StaticGuard(th.mutex, 2).blocked
    /\ th' = [mutex |-> StaticGuard(th.mutex, 2).mutex, pc |-> "entered",
              op |-> op, e |-> e, r |-> r]
    /\ UNCHANGED <<estate, rstate, m_connected_slots, m_senders, conns, nxt, em,
                   r_origin, last, ub, crashed>>

\* the second thread executes the body of the call it is in and returns; the
\* nodes it erases stay readable to an emit in progress
T2Run ==
    /\ ~crashed
    /\ th.pc = "entered"
    /\ LET s0 == [Store EXCEPT !.ub = ub]
           s == IF th.op = "connect" THEN connect(s0, th.e, th.r, "quiet")
                ELSE has_slots_disconnect_all(s0, th.r) IN
       /\ m_connected_slots' = s.slots
       /\ m_senders' = s.senders
       /\ conns' = IF em.active THEN s.conns ELSE Reclaim(s.conns, s.slots)
       /\ nxt' = IF em.active THEN s.nxt ELSE [c \in ConnIds |-> End]
       /\ ub' = s.ub
    /\ rstate' = IF th.op = "destroy_receiver"
                 THEN [rstate EXCEPT ![th.r] = "dead"] ELSE rstate
    /\ th' = [ThIdle EXCEPT !.mutex = Release(th.mutex, 2)]
    /\ UNCHANGED <<estate, em, r_origin, last, crashed>>

NextMT ==
    \/ \E e \in EmitterIds : EmitCall(e)
    \/ EmitStep(Nothing)
    \/ EmitReturn
    \/ \E op \in T2Ops, e \in EmitterIds, r \in ReceiverIds : T2Call(op, e, r)
    \/ T2Run

SpecMT == InitMT /\ [][NextMT]_vars

\* ---- properties ----

\* the number of connections of a list that target receiver r
CountTo(cs, list, r) == Cardinality({i \in 1..Len(list) : cs[list[i]].dest = r})

\* the program is between two operations
Between == ~crashed /\ ~em.active

\* the last operation was `name` and it has returned
Did(name) == Between /\ last.op = name

\* the connections an emit has invoked, in the order of the calls
Invoked == [i \in 1..Len(em.log) |-> em.log[i].c]

\* C1: between operations, for every live emitter E and live receiver R, E is in
\* R's m_senders if and only if E's list holds a connection that targets R.
C1_BackRefIffConnected ==
    Between =>
        \A e \in EmitterIds, r \in ReceiverIds :
            (estate[e] = "live" /\ rstate[r] = "live") =>
                (e \in m_senders[r] <=> CountTo(conns, m_connected_slots[e], r) >= 1)

\* C2: an emit during which no member function touched the emitter has, when it
\* returns, invoked every connection of the list exactly once, in the order the
\* connections were created by connect, and nothing else; the list is as it was.
C2_EmitInvokesAllInOrder ==
    (Did("emit") /\ \A i \in 1..Len(em.log) : em.log[i].act = Nothing) =>
        /\ Invoked = last.slots[last.e]
        /\ \A i, j \in 1..Len(em.log) : i < j => em.log[i].c < em.log[j].c
        /\ m_connected_slots = last.slots
        /\ "stale_iterator" \notin ub

C2_Witness ==
    /\ Did("emit")
    /\ Len(em.log) = 3
    /\ \A i \in 1..Len(em.log) : em.log[i].act = Nothing
    /\ Cardinality({conns[em.log[i].c].dest : i \in 1..Len(em.log)}) = 2

\* C3: between operations no live emitter's list holds a connection that targets
\* a destroyed receiver.
C3_NoConnectionToDestroyed ==
    Between =>
        \A e \in EmitterIds, r \in ReceiverIds :
            (estate[e] = "live" /\ rstate[r] = "dead") =>
                CountTo(conns, m_connected_slots[e], r) = 0

\* the only changes made to the emitter during the emit were member functions
\* disconnecting their own receiver
OnlySelfDisconnects ==
    \A i \in 1..Len(em.log) :
        \/ em.log[i].act = Nothing
        \/ /\ em.log[i].c <= Len(last.conns)
           /\ em.log[i].act = last.conns[em.log[i].c].dest

\* C4: an emit in which member functions disconnect their own receiver (and do
\* nothing else to the emitter) invokes every connection the list held at the
\* call exactly once and in order, never through an erased node; this holds of
\* the emit that follows too, whose list is what the first one left.
C4_SelfDisconnectSafe ==
    (last.op = "emit" /\ ~crashed /\ OnlySelfDisconnects) =>
        /\ "stale_iterator" \notin ub
        /\ Invoked = SubSeq(last.slots[last.e], 1, Len(em.log))
        /\ ~em.active => Invoked = last.slots[last.e]

C4_Witness ==
    /\ Did("emit")
    /\ em.prior
    /\ OnlySelfDisconnects
    /\ Len(em.log) >= 1
    /\ Invoked = m_connected_slots[last.e]

\* C5: during an emit the position the loop moves to is always a connection
\* still in the emitter's list, or the list's end.
C5_NextStillInList ==
    (em.active /\ ~crashed) =>
        (em.it = End \/ InList(m_connected_slots[em.e], em.it))

\* C6: disconnect(E, R) with k >= 1 connections of E targeting R removes the
\* first of them in list order and nothing else: the rest of the list keeps its
\* order and k - 1 connections to R remain.
C6_DisconnectRemovesFirst ==
    (Did("disconnect") /\ CountTo(last.conns, last.slots[last.e], last.r) >= 1) =>
        LET pre == last.slots[last.e]
            post == m_connected_slots[last.e] IN
        /\ \E i \in 1..Len(pre) :
              /\ last.conns[pre[i]].dest = last.r
              /\ \A j \in 1..(i - 1) : last.conns[pre[j]].dest # last.r
              /\ post = SubSeq(pre, 1, i - 1) \o SubSeq(pre, i + 1, Len(pre))
        /\ CountTo(conns, post, last.r) = CountTo(last.conns, pre, last.r) - 1
        /\ \A c \in {post[i] : i \in 1..Len(post)} : conns[c] = last.conns[c]

C6_Witness ==
    /\ Did("disconnect")
    /\ CountTo(last.conns, last.slots[last.e], last.r) = 2
    /\ Len(last.slots[last.e]) = 3
    /\ last.conns[last.slots[last.e][1]].dest # last.r
    /\ CountTo(conns, m_connected_slots[last.e], last.r) = 1

\* C7: copy-constructing emitter E2 from E1 gives E2 a list of new connection
\* objects with E1's receivers and member functions in E1's order, puts E2 in
\* m_senders of every receiver targeted and leaves E1's list as it was; a
\* disconnect on one emitter leaves every other emitter's list as it was.
C7_CopyEmitter ==
    /\ Did("copy_emitter") =>
          LET src == m_connected_slots[last.e]
              cpy == m_connected_slots[last.n] IN
          /\ src = last.slots[last.e]
          /\ Len(cpy) = Len(src)
          /\ \A i \in 1..Len(cpy) :
                /\ conns[cpy[i]] = last.conns[src[i]]
                /\ cpy[i] > Len(last.conns)
                /\ \A j \in 1..Len(cpy) : i # j => cpy[i] # cpy[j]
                /\ rstate[conns[cpy[i]].dest] = "live" =>
                       last.n \in m_senders[conns[cpy[i]].dest]
    /\ Did("disconnect") =>
          \A e \in EmitterIds \ {last.e} : m_connected_slots[e] = last.slots[e]

C7_Witness ==
    /\ Did("copy_emitter")
    /\ Len(m_connected_slots[last.n]) = 2
    /\ Cardinality({conns[m_connected_slots[last.n][i]].dest : i \in 1..2}) = 2
    /\ Cardinality({conns[m_connected_slots[last.n][i]].fn : i \in 1..2}) = 2

\* what C8 says, of the emitters of A's m_senders only: copy-constructing
\* receiver B from A gives every emitter of A's m_senders
\* connections to B beside those to A and puts the emitter in B's m_senders, so
\* that an emit reaches both; disconnect(E, R) then removes a connection to R
\* only: for every other receiver, E's connections to it and its m_senders are
\* as they were.
C8_CopyReceiverIndependent ==
    /\ Did("copy_receiver") =>
          \A e \in last.senders[last.r] :
              /\ CountTo(conns, m_connected_slots[e], last.r) >= 1
              /\ CountTo(conns, m_connected_slots[e], last.n) >= 1
              /\ e \in m_senders[last.n]
              /\ e \in m_senders[last.r]
    /\ Did("disconnect") =>
          \A b \in ReceiverIds \ {last.r} :
              /\ m_senders[b] = last.senders[b]
              /\ SelectSeq(m_connected_slots[last.e], LAMBDA c : conns[c].dest = b)
                    = SelectSeq(last.slots[last.e], LAMBDA c : last.conns[c].dest = b)
    /\ (Did("emit") /\ \A i \in 1..Len(em.log) : em.log[i].act = Nothing) =>
          \A r \in ReceiverIds :
              CountTo(conns, m_connected_slots[last.e], r) =
                  Cardinality({i \in 1..Len(em.log) : conns[em.log[i].c].dest = r})

\* B is a copy of A, disconnect(E, A) has just removed E's only connection to
\* A, and E still holds its connection to B and is in B's m_senders
C8_Witness ==
    /\ Did("disconnect")
    /\ \E b \in ReceiverIds :
          /\ rstate[b] = "live"
          /\ r_origin[b] = last.r
          /\ CountTo(last.conns, last.slots[last.e], last.r) = 1
          /\ CountTo(conns, m_connected_slots[last.e], last.r) = 0
          /\ CountTo(conns, m_connected_slots[last.e], b) = 1
          /\ last.e \in m_senders[b]

\* C8: after receiver B is copy-constructed from A, every emitter that held a
\* connection to A holds connections to A and to B and is in B's m_senders, so
\* that an emit on it invokes both; and A and B are disconnected independently:
\* disconnect(E, R) removes a connection to R only and leaves every other
\* receiver's connections and m_senders as they were.
C8_CopyReceiverReachesBoth ==
    /\ Did("copy_receiver") =>
          \A e \in EmitterIds :
              (estate[e] = "live" /\ CountTo(last.conns, last.slots[e], last.r) >= 1) =>
                  /\ CountTo(conns, m_connected_slots[e], last.r) >= 1
                  /\ CountTo(conns, m_connected_slots[e], last.n) >= 1
                  /\ e \in m_senders[last.n]
    /\ C8_CopyReceiverIndependent

\* C9: disconnect(E, R) when E holds no connection that targets R changes
\* nothing and reports nothing.
C9_DisconnectAbsentIsNoOp ==
    (Did("disconnect") /\ CountTo(last.conns, last.slots[last.e], last.r) = 0) =>
        /\ m_connected_slots = last.slots
        /\ m_senders = last.senders
        /\ conns = last.conns
        /\ ub = {}

C9_Witness ==
    /\ Did("disconnect")
    /\ CountTo(last.conns, last.slots[last.e], last.r) = 0
    /\ Len(m_connected_slots[last.e]) >= 1
    /\ m_senders[last.r] # {}

\* C10: after disconnect_all on emitter E, E's list is empty and E is in no
\* receiver's m_senders; what else the m_senders held, and the other emitters'
\* lists, are as they were.
C10_DisconnectAllClears ==
    Did("disconnect_all") =>
        /\ m_connected_slots[last.e] = << >>
        /\ \A r \in ReceiverIds :
              /\ last.e \notin m_senders[r]
              /\ m_senders[r] = last.senders[r] \ {last.e}
        /\ \A e \in EmitterIds \ {last.e} : m_connected_slots[e] = last.slots[e]

\* a receiver held two connections from E and one from another emitter
C10_Witness ==
    /\ Did("disconnect_all")
    /\ \E r \in ReceiverIds :
          /\ CountTo(last.conns, last.slots[last.e], r) = 2
          /\ last.e \in last.senders[r]
          /\ m_senders[r] # {}

\* C11: once an emitter is destroyed no live receiver's m_senders contains it;
\* destroying or copying a receiver never calls slot_disconnect or
\* slot_duplicate on a destroyed emitter; and the destructor of an emitter or
\* of a receiver never calls into an object that is already destroyed.
C11_NoCallIntoDestroyed ==
    /\ Between =>
          \A r \in ReceiverIds : \A e \in m_senders[r] :
              rstate[r] = "live" => estate[e] # "dead"
    /\ (Did("destroy_receiver") \/ Did("copy_receiver")) => "dead_emitter" \notin ub
    /\ (Did("destroy_emitter") \/ Did("destroy_receiver")) => ub = {}

\* the part of C11 about the receivers' sets and the calls made on emitters
C11_NoDestroyedEmitterKept ==
    /\ Between =>
          \A r \in ReceiverIds : \A e \in m_senders[r] :
              rstate[r] = "live" => estate[e] # "dead"
    /\ "dead_emitter" \notin ub

\* C15: destroying receiver R removes, from the list of every emitter of R's
\* m_senders, all the connections that target R and no other, the others keeping
\* their order; signal_disconnect is called on no receiver, R included, and
\* every other receiver's m_senders is as it was.
C15_DestroyReceiverFrame ==
    Did("destroy_receiver") =>
        /\ \A e \in last.senders[last.r] :
              /\ CountTo(conns, m_connected_slots[e], last.r) = 0
              /\ m_connected_slots[e] =
                     SelectSeq(last.slots[e], LAMBDA c : last.conns[c].dest # last.r)
              /\ \A i \in 1..Len(m_connected_slots[e]) :
                     conns[m_connected_slots[e][i]] = last.conns[m_connected_slots[e][i]]
        /\ last.told = {}
        /\ \A b \in ReceiverIds \ {last.r} : m_senders[b] = last.senders[b]
        /\ ub = {}

\* the emitter held connections to R, to another receiver and to R again
C15_Witness ==
    /\ Did("destroy_receiver")
    /\ \E e \in last.senders[last.r] :
          LET pre == last.slots[e] IN
          /\ Len(pre) = 3
          /\ last.conns[pre[1]].dest = last.r
          /\ last.conns[pre[2]].dest # last.r
          /\ last.conns[pre[3]].dest = last.r
          /\ Len(m_connected_slots[e]) = 1
          /\ e \in m_senders[last.conns[pre[2]].dest]

\* C16: when receiver B is copy-constructed from A, every emitter E that holds k
\* connections to A gets exactly k new connections to B, appended to its list in
\* the order of the k connections to A and with their member functions; the
\* connections the list held keep their places, the appended ones are not
\* duplicated again, and B's m_senders ends equal to A's.
C16_SlotDuplicateAppends ==
    Did("copy_receiver") =>
        /\ \A e \in EmitterIds :
              estate[e] = "live" =>
                  LET pre == last.slots[e]
                      post == m_connected_slots[e]
                      olds == SelectSeq(pre, LAMBDA c : last.conns[c].dest = last.r)
                      k == Len(olds) IN
                  /\ Len(post) = Len(pre) + k
                  /\ SubSeq(post, 1, Len(pre)) = pre
                  /\ \A i \in 1..k :
                         /\ post[Len(pre) + i] > Len(last.conns)
                         /\ conns[post[Len(pre) + i]] =
                                [dest |-> last.n, fn |-> last.conns[olds[i]].fn]
                  /\ CountTo(conns, post, last.n) = k
        /\ m_senders[last.n] = m_senders[last.r]
        /\ m_senders[last.r] = last.senders[last.r]

\* what C16 says, of the emitters of A's m_senders only: the emitters on which
\* the copy constructor calls slot_duplicate
C16_OnSenders ==
    Did("copy_receiver") =>
        /\ \A e \in last.senders[last.r] :
              LET pre == last.slots[e]
                  post == m_connected_slots[e]
                  olds == SelectSeq(pre, LAMBDA c : last.conns[c].dest = last.r)
                  k == Len(olds) IN
              /\ Len(post) = Len(pre) + k
              /\ SubSeq(post, 1, Len(pre)) = pre
              /\ \A i \in 1..k :
                     /\ post[Len(pre) + i] > Len(last.conns)
                     /\ conns[post[Len(pre) + i]] =
                            [dest |-> last.n, fn |-> last.conns[olds[i]].fn]
              /\ CountTo(conns, post, last.n) = k
        /\ \A e \in EmitterIds \ last.senders[last.r] :
              m_connected_slots[e] = last.slots[e]
        /\ m_senders[last.n] = m_senders[last.r]
        /\ m_senders[last.r] = last.senders[last.r]

\* C17: between operations, every emitter in the m_senders of a live receiver R
\* is live and its list holds at least one connection that targets R.
C17_BackRefSound ==
    Between =>
        \A r \in ReceiverIds :
            rstate[r] = "live" =>
                \A e \in m_senders[r] :
                    /\ estate[e] = "live"
                    /\ CountTo(conns, m_connected_slots[e], r) >= 1

\* a disconnect has just removed E's only connection to R while E keeps
\* connections to another receiver, in whose m_senders it stays
C17_Witness ==
    /\ Did("disconnect")
    /\ CountTo(last.conns, last.slots[last.e], last.r) = 1
    /\ last.e \notin m_senders[last.r]
    /\ \E b \in ReceiverIds \ {last.r} :
          /\ last.e \in m_senders[b]
          /\ CountTo(conns, m_connected_slots[last.e], b) = 2

\* C12: every operation holds the one shared mutex from the guard at its head to
\* its return, so that no two threads are inside operations at the same time.
C12_LockHeldThroughout ==
    /\ em.active => th.mutex = 1
    /\ th.pc = "entered" => th.mutex = 2
    /\ ~(em.active /\ th.pc = "entered")

\* C13: while one thread runs emit and another destroys a receiver, emit never
\* calls a member function on a receiver whose destruction has completed, and
\* its iterator never stands on a connection that the destruction removed.
C13_EmitVersusDestroy ==
    /\ "dead_receiver" \notin ub
    /\ (em.active /\ ~crashed /\ em.it # End) =>
          \/ InList(m_connected_slots[em.e], em.it)
          \/ rstate[getdest(conns, em.it)] # "dead"

\* C14: while emit is in its loop no thread holds the mutex, and the guard at the
\* head of a connect or disconnect that a member function calls on the emitter
\* lets the call in: the call runs, and the emit goes on to its return.
C14_NoLockAcrossCallback ==
    em.active =>
        /\ th.mutex = 0
        /\ ~StaticGuard(th.mutex, 1).blocked

\* an emit has returned in which member functions called connect and
\* disconnect on the emitter
C14_Witness ==
    /\ Did("emit")
    /\ \E i \in 1..Len(em.log) : em.log[i].act \in ReceiverIds
    /\ \E i \in 1..Len(em.log) : em.log[i].act \in ConnectActs
    /\ ub = {}

\* the connections from the iterator of the emit in progress to the end of the
\* list: the calls the loop has still to make
Left ==
    IF ~em.active \/ em.it = End \/ ~InList(m_connected_slots[em.e], em.it) THEN 0
    ELSE Len(m_connected_slots[em.e]) - PosOf(m_connected_slots[em.e], em.it) + 1

\* C18: an emit ends after finitely many calls whatever its member functions
\* connect: every call the loop makes, in an emit whose member functions do
\* nothing or call connect, leaves it fewer connections to visit than before.
C18_EmitProgress ==
    [][(/\ em.active /\ em'.active /\ ~crashed'
        /\ Len(em'.log) = Len(em.log) + 1
        /\ \A i \in 1..Len(em'.log) : em'.log[i].act \notin ReceiverIds)
       => Left' < Left]_vars

\* the lists' entries: the receiver and the member function of every connection
Entries(cs, list) == [i \in 1..Len(list) |-> [dest |-> cs[list[i]].dest, fn |-> cs[list[i]].fn]]

\* disconnect(E, R) has returned and the call before it was connect(E, R, f)
RoundTrip == Did("disconnect") /\ last.before.known

\* C19: connect(E, R, f) followed at once by disconnect(E, R) leaves E's list
\* with the entries it had before the connect, in their order, and R's
\* m_senders as it was before the connect.
C19_RoundTrip ==
    RoundTrip =>
        /\ Entries(conns, m_connected_slots[last.e]) =
               Entries(last.before.conns, last.before.slots[last.e])
        /\ m_senders[last.r] = last.before.senders[last.r]

\* C19, amended: when E holds no connection to R before the connect,
\* connect(E, R, f) followed at once by disconnect(E, R) leaves E's list with
\* the entries it had before the connect, in their order, and R's m_senders as
\* it was before the connect.
C19_RoundTripWhenUnconnected ==
    (RoundTrip /\ CountTo(last.before.conns, last.before.slots[last.e], last.r) = 0) =>
        /\ Entries(conns, m_connected_slots[last.e]) =
               Entries(last.before.conns, last.before.slots[last.e])
        /\ m_senders[last.r] = last.before.senders[last.r]

\* E held two connections to another receiver, and R was in the m_senders of
\* another emitter
C19_Witness ==
    /\ RoundTrip
    /\ CountTo(last.before.conns, last.before.slots[last.e], last.r) = 0
    /\ Len(last.before.slots[last.e]) = 2
    /\ last.before.senders[last.r] # {}
    /\ Len(last.slots[last.e]) = 3

====
